---- MODULE Spec2Model ----
(***************************************************************************)
(* A model of ecp.py, the EBI Cloud Portal command line client: the token  *)
(* store (ECP.get_token, ECP.login), the URL resolver (ECP.get_url), the   *)
(* request dispatcher (ECP.make_request), the response renderer            *)
(* (ECP.print_request, ECP.prettyprint) and the CLI driver (main).         *)
(*                                                                         *)
(* One step of the model is one whole operation: an invocation of main, or *)
(* a direct use of the ECP class.  The state between two steps is what the *)
(* operation leaves behind: the default token file, and, as observations,  *)
(* the object's token and headers, the HTTP requests it issued, what it    *)
(* printed and the exception that ended it, if any.                        *)
(*                                                                         *)
(* Conventions.  Text that the program inspects character by character     *)
(* (tokens, token files) is a sequence of one-character strings; other     *)
(* text (URLs, resource names) is a string.  An optional value is a        *)
(* sequence of length at most one.  HOME is taken to be set.               *)
(* The fields of a record and the elements of a set of strings are written *)
(* in the order in which TLC keeps them, so that building a value never    *)
(* reorders it.                                                            *)
(***************************************************************************)
EXTENDS Naturals, Sequences, FiniteSets, TLC

VARIABLES
  home_ecp_token, \* $HOME/.ecp_token: <<>> when absent, else <<content>>
  lastLogin,      \* history: <<>>, or <<text>> returned by the latest login
  call,           \* the operation of the last step and its inputs
  exc,            \* "" when the last step returned, else the exception
  self,           \* <<>>, or <<[token, Authorization]>> of the ECP object
  requests,       \* the HTTP requests issued by the last step, in order
  stdout,         \* what the last step printed: [strategy, rows]
  stderr,         \* the messages the last step printed to standard error
  last_url        \* <<>>, or <<what get_url returned in the last step>>

vars ==
  <<home_ecp_token, lastLogin, call, exc, self, requests, stdout, stderr, last_url>>

\* Python's None, for values that are otherwise strings.
None == "None#"

\* The number of records in a list response.
MaxRows == 2

----------------------------------------------------------------------------
(* Text *)

\* str.replace('\n', '')
strip_newlines(s) == SelectSeq(s, LAMBDA c : c # "\n")

Bearer == <<"B", "e", "a", "r", "e", "r", " ">>

\* requests' auth=(user, pw): HTTP Basic, no bearer header
BasicAuth == <<"B", "a", "s", "i", "c", " ">>

----------------------------------------------------------------------------
(* The files named on the command line.  t1.txt and t2.txt are token      *)
(* files, body.json is a request body; any other path is unreadable.      *)

TokenFileText(path) ==
  CASE path = "t1.txt" -> <<<<"x", "\n">>>>
    [] path = "t2.txt" -> <<<<"y", "\n", "z", "\n">>>>
    [] OTHER -> <<>>

BodyFileText(path) ==
  CASE path = "body.json" -> <<"{\"name\": \"n1\"}">>
    [] OTHER -> <<>>

----------------------------------------------------------------------------
(* ECP.get_token: the token and the Authorization header of a new object.  *)
(* tokenfile is a path or None; ECP_TOKEN and home are optional texts.     *)

Object(token) == [token |-> token, Authorization |-> Bearer \o token]

\* get_token with the environment variable looked at first
get_token_env_first(tokenfile, ECP_TOKEN, home) ==
  IF ECP_TOKEN # <<>>
    THEN [exc |-> "", self |-> <<Object(ECP_TOKEN[1])>>]
  ELSE IF tokenfile # None
    THEN IF TokenFileText(tokenfile) = <<>>
           THEN [exc |-> "IOError", self |-> <<>>]
           ELSE [exc |-> "",
                 self |-> <<Object(strip_newlines(TokenFileText(tokenfile)[1]))>>]
  ELSE IF home # <<>>
    THEN [exc |-> "", self |-> <<Object(strip_newlines(home[1]))>>]
  ELSE [exc |-> "", self |-> <<Object(<<>>)>>]

get_token(tokenfile, ECP_TOKEN, home) ==
  IF tokenfile # None
    THEN IF TokenFileText(tokenfile) = <<>>
           THEN [exc |-> "IOError", self |-> <<>>]
           ELSE [exc |-> "",
                 self |-> <<Object(strip_newlines(TokenFileText(tokenfile)[1]))>>]
  ELSE IF ECP_TOKEN # <<>>
    THEN [exc |-> "", self |-> <<Object(ECP_TOKEN[1])>>]
  ELSE IF home # <<>>
    THEN [exc |-> "", self |-> <<Object(strip_newlines(home[1]))>>]
  ELSE [exc |-> "", self |-> <<Object(<<>>)>>]

----------------------------------------------------------------------------
(* ECP.get_url *)

baseurl == "https://api.portal.tsi.ebi.ac.uk"

\* The local variable resourcepath, Unbound when no branch assigns it.
Unbound == "Unbound#"

\* resourcepath with the plural spelling 'params' left out
resourcepath_without_params(resource) ==
  IF resource = "cred" \/ resource = "creds" THEN "/cloudproviderparameters/"
  ELSE IF resource = "param" THEN "/configuration/deploymentparameters/"
  ELSE IF resource = "config" \/ resource = "configs" THEN "/configuration/"
  ELSE IF resource = "app" \/ resource = "apps" THEN "/application/"
  ELSE IF resource = "deployment" \/ resource = "deployments" THEN "/deployment/"
  ELSE Unbound

resourcepath(resource) ==
  IF resource = "cred" \/ resource = "creds" THEN "/cloudproviderparameters/"
  ELSE IF resource = "param" \/ resource = "params"
    THEN "/configuration/deploymentparameters/"
  ELSE IF resource = "config" \/ resource = "configs" THEN "/configuration/"
  ELSE IF resource = "app" \/ resource = "apps" THEN "/application/"
  ELSE IF resource = "deployment" \/ resource = "deployments" THEN "/deployment/"
  ELSE Unbound

\* [exc, url, stderr]: url is None when the function falls off its end.
\* str + None raises TypeError, which the except clause does not catch.
get_url(resource, name) ==
  IF resource = "logs" \/ resource = "destroylogs" \/ resource = "status"
    THEN IF name = None
           THEN [exc |-> "TypeError", stderr |-> <<>>, url |-> None]
           ELSE [exc |-> "", stderr |-> <<>>,
                 url |-> baseurl \o "/deployment/" \o name \o "/" \o resource]
  ELSE IF resourcepath(resource) = Unbound
    THEN [exc |-> "", stderr |-> <<"Unknown verb or resource">>, url |-> None]
  ELSE IF name = None
    THEN [exc |-> "TypeError", stderr |-> <<>>, url |-> None]
  ELSE [exc |-> "", stderr |-> <<>>,
        url |-> baseurl \o resourcepath(resource) \o name]

----------------------------------------------------------------------------
(* The server.  A response is [kind, records]: kind "neterror" (the        *)
(* transport raises), "text" (a body that is not JSON), "object" (JSON     *)
(* without the list envelope) or "list" (JSON with '_embedded' and the     *)
(* collection of the kind asked for).  A record of a list carries what the *)
(* renderer reads: startedTime (optional, epoch milliseconds) and what the *)
(* record's status link answers: a status value, "nofield" (a JSON body    *)
(* without 'status') or "raises" (the fetch raises).                       *)

Response(kind, records) == [kind |-> kind, records |-> records]

\* make_request's response = '{}' for a verb it does not know
StrResponse == Response("str", <<>>)

NoResponse == Response("none", <<>>)

Reference == <<"d1", "d2", "d3", "d4">>

status_href(i) == baseurl \o "/deployment/" \o Reference[i] \o "/status"

Request(method, url, auth, data) ==
  [url |-> url, method |-> method, auth |-> auth, data |-> data]

Block(strategy, rows) == [strategy |-> strategy, rows |-> rows]

----------------------------------------------------------------------------
(* ECP.make_request: [exc, requests, stdout, stderr, response].  data is   *)
(* passed to requests.post only.                                           *)

make_request(headers, verb, resource, name, data, response) ==
  LET u == get_url(resource, name)
      Sent(method, url, body) ==
        [exc |-> IF response.kind = "neterror" THEN "ConnectionError" ELSE "",
         requests |-> <<Request(method, url, headers, body)>>,
         stdout |-> <<>>, stderr |-> u.stderr,
         response |-> IF response.kind = "neterror" THEN NoResponse ELSE response]
      Raised(e) ==
        [exc |-> e, requests |-> <<>>, stdout |-> <<>>, stderr |-> u.stderr,
         response |-> NoResponse]
  IN  IF u.exc # "" THEN Raised(u.exc)
      ELSE IF verb = "get"
        THEN IF u.url = None THEN Raised("MissingSchema")
             ELSE Sent("GET", u.url, <<>>)
      ELSE IF verb = "create"
        THEN IF u.url = None THEN Raised("MissingSchema")
             ELSE Sent("POST", u.url, <<data>>)
      ELSE IF verb = "delete"
        THEN IF u.url = None THEN Raised("MissingSchema")
             ELSE Sent("DELETE", u.url, <<>>)
      ELSE IF verb = "stop"
        THEN IF u.url = None THEN Raised("TypeError")
             ELSE Sent("PUT", u.url \o "/stop", <<>>)
      ELSE [exc |-> "", requests |-> <<>>,
            stdout |-> <<Block("message", <<<<"Unknown verb, try --help for usage">>>>)>>,
            stderr |-> u.stderr,
            response |-> StrResponse]

----------------------------------------------------------------------------
(* ECP.prettyprint and ECP.get_depl_status *)

Digits == <<"0", "1", "2", "3", "4", "5", "6", "7", "8", "9">>

TwoDigits(n) == Digits[(n \div 10) + 1] \o Digits[(n % 10) + 1]

\* datetime.fromtimestamp(ms / 1000.0).strftime('%H:%M %d-%m-%Y'), for a
\* time on 1 January 1970 in a UTC local zone
strftime(ms) ==
  TwoDigits((ms \div 3600000) % 24) \o ":" \o TwoDigits((ms \div 60000) % 60)
    \o " 01-01-1970"

start_t(depl) == IF depl.startedTime # <<>> THEN strftime(depl.startedTime[1]) ELSE ""

\* status_r['status'] inside try/except
status_cell(depl) ==
  IF depl.status = "nofield" THEN "Error getting status" ELSE depl.status

\* The loop over deploymentResourceList from record i on, with the table and
\* the status requests so far: [exc, table, requests].  get_depl_status is
\* called outside the try, so what it raises leaves the loop.
RECURSIVE deployment_rows(_, _, _, _, _)
deployment_rows(headers, records, i, table, reqs) ==
  IF i > Len(records) THEN [exc |-> "", requests |-> reqs, table |-> table]
  ELSE LET depl == records[i]
           sent == Append(reqs, Request("GET", depl.href, headers, <<>>))
       IN  IF depl.status = "raises"
             THEN [exc |-> "ConnectionError", requests |-> sent, table |-> table]
             ELSE deployment_rows(headers, records, i + 1,
                    Append(table, <<depl.reference, depl.applicationName,
                                    start_t(depl), status_cell(depl)>>),
                    sent)

item_lines(res, rec) ==
  IF res = "config" \/ res = "configs"
    THEN <<"- " \o rec.reference \o ":",
           "    Cloud provider parameters: " \o rec.cloudProviderParametersName,
           "    SSH Public Key: " \o rec.sshKey,
           "    Parameters: " \o rec.deploymentParametersName>>
  ELSE IF res = "cred" \/ res = "creds"
    THEN <<"- " \o rec.reference \o ":",
           "    Provider: " \o rec.cloudProvider,
           "    Parameters: ",
           "    * " \o rec.key \o ": " \o rec.value>>
  ELSE <<"- " \o rec.reference \o ":",
         "    Parameters: ",
         "    * " \o rec.key \o ": " \o rec.value>>

\* [exc, requests, stdout]
prettyprint(headers, resp, res) ==
  LET Printed(blocks) == [exc |-> "", requests |-> <<>>, stdout |-> blocks]
      envelope == resp.kind = "list"
      yaml == Printed(<<Block("yaml", <<>>)>>)
  IN  IF (res = "deployment" \/ res = "deployments") /\ envelope
        THEN LET d == deployment_rows(headers, resp.records, 1,
                        <<<<"REFERENCE", "APP NAME", "STARTED", "STATUS">>>>, <<>>)
             IN  [exc |-> d.exc, requests |-> d.requests,
                  stdout |-> IF d.exc = "" THEN <<Block("table", d.table)>> ELSE <<>>]
      ELSE IF (res = "app" \/ res = "apps") /\ envelope
        THEN Printed(<<Block("table",
               <<<<"NAME", "VERSION">>>> \o
               [i \in 1..Len(resp.records) |->
                  <<resp.records[i].reference, resp.records[i].version>>])>>)
      ELSE IF (res \in {"cred", "creds", "param", "params", "config", "configs"})
              /\ envelope
        THEN Printed(<<Block("items",
               [i \in 1..Len(resp.records) |-> item_lines(res, resp.records[i])])>>)
      ELSE yaml

----------------------------------------------------------------------------
(* ECP.print_request: [exc, requests, stdout] *)

\* print_request with the verb looked at before --json
print_request_verb_first(headers, response, verb, resource, jsondump) ==
  IF response.kind \in {"text", "str"}
    THEN [exc |-> "", requests |-> <<>>, stdout |-> <<Block("raw", <<>>)>>]
  ELSE IF verb = "get"
    THEN IF jsondump
           THEN [exc |-> "", requests |-> <<>>, stdout |-> <<Block("json", <<>>)>>]
           ELSE prettyprint(headers, response, resource)
  ELSE [exc |-> "", requests |-> <<>>, stdout |-> <<Block("yaml", <<>>)>>]

print_request(headers, response, verb, resource, jsondump) ==
  IF response.kind \in {"text", "str"}
    THEN [exc |-> "", requests |-> <<>>, stdout |-> <<Block("raw", <<>>)>>]
  ELSE IF jsondump
    THEN [exc |-> "", requests |-> <<>>, stdout |-> <<Block("json", <<>>)>>]
  ELSE IF verb = "get"
    THEN prettyprint(headers, response, resource)
  ELSE [exc |-> "", requests |-> <<>>, stdout |-> <<Block("yaml", <<>>)>>]

----------------------------------------------------------------------------
(* ECP.login: [exc, self, requests, home, text].  The credentials are the  *)
(* flags' or the prompts'; answer is <<>> when the exchange raises, else   *)
(* <<response.text>>.  print adds the newline to the file.                 *)

authurl == "https://api.aai.ebi.ac.uk/auth"

\* login that keeps the token in the object and does not write the file
login_without_write(e, home, answer) ==
  LET sent == <<Request("GET", authurl, BasicAuth, <<>>)>>
  IN  IF answer = <<>>
        THEN [exc |-> "ConnectionError", self |-> e, requests |-> sent,
              home |-> home, text |-> <<>>]
        ELSE [exc |-> "", self |-> <<Object(answer[1])>>, requests |-> sent,
              home |-> home, text |-> answer]

login(e, home, answer) ==
  LET sent == <<Request("GET", authurl, BasicAuth, <<>>)>>
  IN  IF answer = <<>>
        THEN [exc |-> "ConnectionError", self |-> e, requests |-> sent,
              home |-> home, text |-> <<>>]
        ELSE [exc |-> "", self |-> <<Object(answer[1])>>, requests |-> sent,
              home |-> <<answer[1] \o <<"\n">>>>, text |-> answer]

----------------------------------------------------------------------------
(* main.  args is the parsed command line: verb, resource (None when       *)
(* omitted), name ('' when omitted), file and token (None when omitted),   *)
(* json.  The result is everything the invocation leaves behind.           *)

verbs == {"login", "get", "create", "delete", "stop"}

resources ==
  {"status", "cred", "creds", "param", "params", "config", "configs", "app",
   "apps", "deployment", "deployments", "logs"}

Args(verb, resource, name, file, token, json) ==
  [token |-> token, resource |-> resource, name |-> name, verb |-> verb,
   file |-> file, json |-> json]

Outcome(e, x, reqs, out, err, home, text, u) ==
  [exc |-> x, self |-> e, requests |-> reqs, stdout |-> out, stderr |-> err,
   home |-> home, url |-> u, login |-> text]

\* the 'ecp stop somename' shortcut
shortcut(args) == args.verb = "stop" /\ args.resource # "deployment"

main(args, ECP_TOKEN, home, answer, response) ==
  LET e == get_token(None, ECP_TOKEN, home).self
      Ended(x, reqs, out, err, u) == Outcome(e, x, reqs, out, err, home, <<>>, u)
  IN  IF args.file # None /\ BodyFileText(args.file) = <<>>
        THEN Ended("IOError", <<>>, <<>>, <<>>, <<>>)
      ELSE IF args.verb = "login"
        THEN LET l == login(e, home, answer)
             IN  Outcome(l.self, l.exc, l.requests, <<>>,
                         IF l.exc = "" THEN <<"token">> ELSE <<>>,
                         l.home, l.text, <<>>)
      ELSE IF args.verb \notin verbs
        THEN Ended("", <<>>, <<>>, <<"Unknown verb">>, <<>>)
      ELSE
        LET data == IF args.file # None THEN BodyFileText(args.file)[1] ELSE ""
            name == IF shortcut(args) THEN args.resource ELSE args.name
            resource == IF shortcut(args) THEN "deployment" ELSE args.resource
        IN  IF resource \notin resources
              THEN IF resource = None
                     THEN Ended("TypeError", <<>>, <<>>, <<>>, <<>>)
                     ELSE Ended("", <<>>, <<>>, <<"Unknown resource">>, <<>>)
            ELSE
              LET u == get_url(resource, name)
                  r == make_request(e[1].Authorization, args.verb, resource, name,
                                    data, response)
                  p == print_request(e[1].Authorization, r.response, args.verb,
                                     resource, args.json)
                  got == IF u.exc = "" THEN <<u.url>> ELSE <<>>
              IN  IF r.exc # ""
                    THEN Ended(r.exc, r.requests, r.stdout, r.stderr, got)
                    ELSE Ended(p.exc, r.requests \o p.requests,
                               r.stdout \o p.stdout, r.stderr, got)

----------------------------------------------------------------------------
(* The inputs the model draws from. *)

\* ECP_TOKEN: unset, or set (its value is used as it is)
EnvValues == {<<>>, <<<<"e">>>>, <<<<"f", "\n">>>>}

\* what the authentication host answers: a failed exchange, or a text
LoginAnswers == {<<>>, <<<<"a">>>>, <<<<"b", "\n", "c">>>>}

TokenPaths == {None, "t1.txt", "t2.txt", "nofile.txt"}

BodyPaths == {None, "body.json", "nofile.json"}

\* the resource position of the command line
ResourceArgs ==
  {"status", "cred", "creds", "param", "params", "config", "configs", "app",
   "apps", "deployment", "deployments", "logs", None, "destroylogs", "n1"}

\* the four verbs that stand for a request
RequestVerbs == {"get", "create", "delete", "stop"}

\* the verb position of the command line: a request verb or an unknown word
VerbArgs == {"get", "create", "delete", "stop", "restart"}

\* what the server answers
ResponseKinds == {"text", "neterror", "list", "object"}

StartedTimes == {<<>>, <<3660000>>}

StatusAnswers == {"nofield", "raises", "RUNNING"}

Record(i, started, status) ==
  [startedTime |-> started, status |-> status, href |-> status_href(i),
   reference |-> Reference[i], applicationName |-> "app",
   cloudProviderParametersName |-> "cpp", sshKey |-> "ssh-rsa",
   deploymentParametersName |-> "dp", cloudProvider |-> "OSTACK",
   key |-> "k", value |-> "v", version |-> "1.0"]

\* a list of n records whose status links answer and that carry no startedTime
PlainList(n) == Response("list", [i \in 1..n |-> Record(i, <<>>, "RUNNING")])

\* a list of n deployment records: f gives each its startedTime and what its
\* status link answers
DeploymentList(n, f) ==
  Response("list", [i \in 1..n |-> Record(i, f[i][1], f[i][2])])

Object_ == Response("object", <<>>)

----------------------------------------------------------------------------
(* The steps. *)

\* no process is running: nothing is observed
NoCall ==
  [tokenfile |-> None, ECP_TOKEN |-> <<>>, home |-> <<>>,
   response |-> NoResponse, answer |-> <<>>,
   args |-> Args("", None, "", None, None, FALSE), op |-> "none"]

Init ==
  /\ home_ecp_token \in {<<>>, <<<<"h", "\n">>>>}
  /\ lastLogin = <<>>
  /\ call = NoCall
  /\ self = <<>>
  /\ requests = <<>>
  /\ stdout = <<>>
  /\ stderr = <<>>
  /\ exc = ""
  /\ last_url = <<>>

\* one invocation of the program
Main(args, ECP_TOKEN, answer, response) ==
  LET m == main(args, ECP_TOKEN, home_ecp_token, answer, response)
  IN  /\ call = NoCall
      /\ call' = [tokenfile |-> None, ECP_TOKEN |-> ECP_TOKEN,
                  home |-> home_ecp_token, response |-> response,
                  answer |-> answer, args |-> args, op |-> "main"]
      /\ home_ecp_token' = m.home
      /\ lastLogin' = IF m.login # <<>> THEN m.login ELSE lastLogin
      /\ self' = m.self
      /\ requests' = m.requests
      /\ stdout' = m.stdout
      /\ stderr' = m.stderr
      /\ exc' = m.exc
      /\ last_url' = m.url

\* ECP(tokenfile)
NewECP(tokenfile, ECP_TOKEN) ==
  LET t == get_token(tokenfile, ECP_TOKEN, home_ecp_token)
  IN  /\ call = NoCall
      /\ call' = [tokenfile |-> tokenfile, ECP_TOKEN |-> ECP_TOKEN,
                  home |-> home_ecp_token, response |-> NoResponse,
                  answer |-> <<>>,
                  args |-> Args("", None, "", None, None, FALSE), op |-> "ECP"]
      /\ self' = t.self
      /\ exc' = t.exc
      /\ requests' = <<>>
      /\ stdout' = <<>>
      /\ stderr' = <<>>
      /\ last_url' = <<>>
      /\ UNCHANGED <<home_ecp_token, lastLogin>>

\* ECP().get_url(resource, name)
GetUrl(resource, name) ==
  LET t == get_token(None, <<>>, home_ecp_token)
      u == get_url(resource, name)
  IN  /\ call = NoCall
      /\ call' = [tokenfile |-> None, ECP_TOKEN |-> <<>>,
                  home |-> home_ecp_token, response |-> NoResponse,
                  answer |-> <<>>,
                  args |-> Args("", resource, name, None, None, FALSE),
                  op |-> "get_url"]
      /\ self' = t.self
      /\ exc' = u.exc
      /\ requests' = <<>>
      /\ stdout' = <<>>
      /\ stderr' = u.stderr
      /\ last_url' = IF u.exc = "" THEN <<u.url>> ELSE <<>>
      /\ UNCHANGED <<home_ecp_token, lastLogin>>

\* ECP().make_request(verb, resource, name, data='{}')
MakeRequest(verb, resource, name, response) ==
  LET t == get_token(None, <<>>, home_ecp_token)
      u == get_url(resource, name)
      r == make_request(t.self[1].Authorization, verb, resource, name, "{}", response)
  IN  /\ call = NoCall
      /\ call' = [tokenfile |-> None, ECP_TOKEN |-> <<>>,
                  home |-> home_ecp_token, response |-> response,
                  answer |-> <<>>,
                  args |-> Args(verb, resource, name, None, None, FALSE),
                  op |-> "make_request"]
      /\ self' = t.self
      /\ exc' = r.exc
      /\ requests' = r.requests
      /\ stdout' = r.stdout
      /\ stderr' = r.stderr
      /\ last_url' = IF u.exc = "" THEN <<u.url>> ELSE <<>>
      /\ UNCHANGED <<home_ecp_token, lastLogin>>

\* The process ends: its object and its output are gone, the token file stays.
\* The program is single-process: the next operation starts after this one.
Exit ==
  /\ call # NoCall
  /\ call' = NoCall
  /\ self' = <<>>
  /\ requests' = <<>>
  /\ stdout' = <<>>
  /\ stderr' = <<>>
  /\ exc' = ""
  /\ last_url' = <<>>
  /\ UNCHANGED <<home_ecp_token, lastLogin>>

\* invocations that differ in where the token comes from
CliTokens ==
  \E verb \in {"login", "get"}, token \in TokenPaths, env \in EnvValues :
    \E answer \in IF verb = "login" THEN LoginAnswers ELSE {<<>>} :
      Main(Args(verb, "apps", "", None, token, FALSE), env, answer, Object_)

\* invocations that differ in verb, resource, name and --file
CliDispatch ==
  \E verb \in VerbArgs, resource \in ResourceArgs,
     name \in {"", "n1"} :
    \E file \in IF verb = "create" THEN BodyPaths ELSE {None, "body.json"} :
      Main(Args(verb, resource, name, file, None, FALSE), <<>>, <<>>, Object_)

\* invocations that differ in what the server answers and in --json
CliRender ==
  \E verb \in RequestVerbs, resource \in resources, name \in {"", "n1"},
     json \in BOOLEAN, kind \in ResponseKinds, n \in 0..MaxRows :
    /\ kind = "list" \/ n = 0
    /\ Main(Args(verb, resource, name, None, None, json), <<>>, <<>>,
            IF kind = "list" THEN PlainList(n) ELSE Response(kind, <<>>))

\* deployment listings
CliListing ==
  \E resource \in {"deployment", "deployments"}, n \in 0..MaxRows :
    \E f \in [1..n -> StartedTimes \X StatusAnswers] :
      Main(Args("get", resource, "", None, None, FALSE), <<>>, <<>>,
           DeploymentList(n, f))

ApiNew == \E tokenfile \in TokenPaths, env \in EnvValues : NewECP(tokenfile, env)

ApiGetUrl ==
  \E resource \in ResourceArgs, name \in {None, "", "n1"} : GetUrl(resource, name)

ApiMakeRequest ==
  \E verb \in VerbArgs, resource \in {"apps", "logs", "n1"},
     name \in {"", "n1"}, kind \in {"neterror", "object"} :
    MakeRequest(verb, resource, name, Response(kind, <<>>))

Next ==
  \/ CliTokens
  \/ CliDispatch
  \/ CliRender
  \/ CliListing
  \/ ApiNew
  \/ ApiGetUrl
  \/ ApiMakeRequest
  \/ Exit

Spec == Init /\ [][Next]_vars

----------------------------------------------------------------------------
(* What the properties below speak of. *)

IsMain == call.op = "main"

\* --file is absent or names a readable file
BodyReadable == call.args.file = None \/ BodyFileText(call.args.file) # <<>>

\* the resource after the stop shortcut
PostResource == IF shortcut(call.args) THEN "deployment" ELSE call.args.resource

\* a text without its newline characters
RECURSIVE NoNewlines(_)
NoNewlines(s) ==
  IF s = <<>> THEN <<>>
  ELSE IF Head(s) = "\n" THEN NoNewlines(Tail(s))
  ELSE <<Head(s)>> \o NoNewlines(Tail(s))

----------------------------------------------------------------------------
\* C1: the token of a new object follows the precedence explicit file (its
\* content without newlines; IOError when unreadable), then ECP_TOKEN (its
\* value), then the default file when it exists (its content without
\* newlines), then the empty string; and the Authorization header is always
\* 'Bearer ' followed by the object's token.
C1_TokenPrecedence ==
  LET loggedIn == IsMain /\ call.args.verb = "login" /\ BodyReadable /\ exc = ""
      expected ==
        IF call.tokenfile # None THEN NoNewlines(TokenFileText(call.tokenfile)[1])
        ELSE IF call.ECP_TOKEN # <<>> THEN call.ECP_TOKEN[1]
        ELSE IF call.home # <<>> THEN NoNewlines(call.home[1])
        ELSE <<>>
  IN  /\ (call # NoCall /\ call.tokenfile # None
            /\ TokenFileText(call.tokenfile) = <<>>)
           => (self = <<>> /\ exc = "IOError")
      /\ (call # NoCall /\ ~loggedIn
            /\ (call.tokenfile = None \/ TokenFileText(call.tokenfile) # <<>>))
           => (self # <<>> /\ self[1].token = expected)
      /\ self # <<>> => self[1].Authorization = Bearer \o self[1].token
      /\ \A i \in 1..Len(requests) :
           requests[i].url # authurl => requests[i].auth = Bearer \o self[1].token

\* all three sources are set and the explicit file wins
C1_Witness ==
  /\ call.op = "ECP" /\ call.tokenfile = "t2.txt"
  /\ call.ECP_TOKEN = <<<<"e">>>> /\ call.home = <<<<"h", "\n">>>>
  /\ self = <<[token |-> <<"y", "z">>,
               Authorization |-> <<"B", "e", "a", "r", "e", "r", " ", "y", "z">>]>>

\* C2: with --token PATH the request of the invocation carries the content
\* of the file at PATH as its bearer token.
C2_TokenFlagUsed ==
  (IsMain /\ call.args.token # None /\ TokenFileText(call.args.token) # <<>>
     /\ call.args.verb # "login")
    => \A i \in 1..Len(requests) :
         requests[i].auth = Bearer \o NoNewlines(TokenFileText(call.args.token)[1])

\* C3: in a deployment listing every record whose status fetch raises or
\* answers without 'status' gets the cell 'Error getting status', no
\* exception leaves the rendering and every row is rendered.
C3_StatusErrorsIsolated ==
  (IsMain /\ call.args.verb = "get" /\ ~call.args.json
     /\ call.args.resource \in {"deployment", "deployments"}
     /\ call.response.kind = "list")
    => /\ exc = ""
       /\ Len(stdout) = 1 /\ stdout[1].strategy = "table"
       /\ Len(stdout[1].rows) = Len(call.response.records) + 1
       /\ \A i \in 1..Len(call.response.records) :
            call.response.records[i].status \in {"nofield", "raises"}
              => stdout[1].rows[i + 1][4] = "Error getting status"

\* C4: 'stop n', 'stop deployment n' and 'stop deployments n' each issue
\* exactly the request PUT {base}/deployment/n/stop.
C4_StopFormsEquivalent ==
  \A n \in {"n1"} :
    (IsMain /\ call.args.verb = "stop"
       /\ \/ call.args.resource = n /\ call.args.name = ""
          \/ call.args.resource = "deployment" /\ call.args.name = n
          \/ call.args.resource = "deployments" /\ call.args.name = n)
      => /\ Len(requests) = 1
         /\ requests[1].method = "PUT"
         /\ requests[1].url = "https://api.portal.tsi.ebi.ac.uk/deployment/" \o n \o "/stop"

\* C6: a valid verb with a missing or unknown resource (after the stop
\* shortcut) prints a usage error to stderr, returns without an exception and
\* issues no request.
C6_UnknownResourceIsUsageError ==
  (IsMain /\ call.args.verb \in RequestVerbs /\ BodyReadable
     /\ PostResource \notin resources)
    => /\ exc = ""
       /\ stderr = <<"Unknown resource">>
       /\ requests = <<>>

\* C5: for every known kind, singular or plural, and every name, get_url
\* returns the API base followed by the kind's path of the table, so the two
\* spellings of a kind give one URL and an empty name gives the collection
\* URL with no name segment.
C5_UrlTable ==
  LET kind == [status |-> "status", cred |-> "cred", creds |-> "cred",
               param |-> "param", params |-> "param", config |-> "config",
               configs |-> "config", app |-> "app", apps |-> "app",
               deployment |-> "deployment", deployments |-> "deployment",
               logs |-> "logs"]
      before == [status |-> "/deployment/",
                 cred |-> "/cloudproviderparameters/",
                 param |-> "/configuration/deploymentparameters/",
                 config |-> "/configuration/", app |-> "/application/",
                 deployment |-> "/deployment/",
                 logs |-> "/deployment/"]
      after == [status |-> "/status", cred |-> "", param |-> "", config |-> "",
                app |-> "", deployment |-> "", logs |-> "/logs"]
      k == kind[call.args.resource]
  IN  (call.op \in {"get_url", "make_request"}
         /\ call.args.resource \in DOMAIN kind /\ call.args.name # None)
        => /\ exc \in {"", "ConnectionError"}
           /\ last_url = <<"https://api.portal.tsi.ebi.ac.uk" \o before[k]
                             \o call.args.name \o after[k]>>

\* get_url('params', 'n1')
C5_Witness ==
  /\ call.op = "get_url" /\ call.args.resource = "params" /\ call.args.name = "n1"
  /\ last_url =
       <<"https://api.portal.tsi.ebi.ac.uk/configuration/deploymentparameters/n1">>

\* C7, as stated: a non-login invocation uses the token that the most recent
\* login returned.
C7_LoginTokenUsed ==
  (IsMain /\ call.args.verb # "login" /\ lastLogin # <<>>)
    => (self # <<>> /\ self[1].token = lastLogin[1])

\* C7, amended: a non-login invocation whose environment does not set
\* ECP_TOKEN uses the text that the most recent login returned, without its
\* newline characters, and sends it in each of its requests.
C7_LoginTokenUsedWithoutEnv ==
  (IsMain /\ call.args.verb # "login" /\ lastLogin # <<>> /\ call.ECP_TOKEN = <<>>)
    => /\ self # <<>>
       /\ self[1].token = NoNewlines(lastLogin[1])
       /\ \A i \in 1..Len(requests) :
            requests[i].auth = Bearer \o NoNewlines(lastLogin[1])

\* a get after a login that returned 'a', then one that returned 'b\nc'
C7_Witness ==
  /\ IsMain /\ call.args.verb = "get" /\ call.ECP_TOKEN = <<>>
  /\ lastLogin = <<<<"b", "\n", "c">>>>
  /\ Len(requests) = 1
  /\ requests[1].auth = <<"B", "e", "a", "r", "e", "r", " ", "b", "c">>

\* C8: make_request issues exactly one HTTP call for each of get, create,
\* delete and stop (GET url, POST url with the body, DELETE url, PUT
\* url/stop; a body with create only) and none for another verb.  The
\* renderer's status lookups come after it.
C8_OneCallPerVerb ==
  LET method == [get |-> "GET", create |-> "POST", delete |-> "DELETE",
                 stop |-> "PUT"]
      verb == call.args.verb
      data == IF IsMain /\ call.args.file # None
                THEN BodyFileText(call.args.file)[1]
                ELSE IF IsMain THEN "" ELSE "{}"
      dispatched ==
        \/ call.op = "make_request"
        \/ IsMain /\ verb \in RequestVerbs /\ BodyReadable
             /\ PostResource \in resources
  IN  dispatched =>
        IF verb \in RequestVerbs
          THEN /\ Len(requests) >= 1
               /\ last_url # <<>>
               /\ requests[1].method = method[verb]
               /\ requests[1].url =
                    IF verb = "stop" THEN last_url[1] \o "/stop" ELSE last_url[1]
               /\ requests[1].data = IF verb = "create" THEN <<data>> ELSE <<>>
               /\ \A i \in 2..Len(requests) :
                    \E j \in 1..Len(Reference) : requests[i].url = status_href(j)
               /\ IsMain \/ Len(requests) = 1
          ELSE requests = <<>>

\* C9: print_request prints an undecodable body as raw text, else JSON under
\* --json for every verb and kind, else the block-style dump for a verb other
\* than get; tables, itemized listings and status requests occur only for a
\* decodable body, without --json, with verb get, a kind among deployment,
\* app, config, cred and param, and the list envelope.
C9_RenderingOrder ==
  LET kind == call.response.kind
      rendered == IsMain /\ call.args.verb \in RequestVerbs /\ requests # <<>>
                    /\ kind # "neterror"
      specific ==
        \/ \E i \in 1..Len(stdout) : stdout[i].strategy \in {"table", "items"}
        \/ Len(requests) > 1
  IN  /\ rendered /\ kind = "text" => stdout = <<Block("raw", <<>>)>>
      /\ rendered /\ kind # "text" /\ call.args.json
           => stdout = <<Block("json", <<>>)>>
      /\ rendered /\ kind # "text" /\ ~call.args.json /\ call.args.verb # "get"
           => stdout = <<Block("yaml", <<>>)>>
      /\ IsMain /\ specific =>
           /\ kind = "list" /\ ~call.args.json /\ call.args.verb = "get"
           /\ call.args.resource \in
                {"cred", "creds", "param", "params", "config", "configs",
                 "app", "apps", "deployment", "deployments"}

\* a listing of two deployments: a table and two status requests
C9_Witness ==
  /\ IsMain /\ call.args.verb = "get" /\ call.args.resource = "deployments"
  /\ ~call.args.json /\ call.response.kind = "list"
  /\ Len(requests) = 3
  /\ Len(stdout) = 1 /\ stdout[1].strategy = "table" /\ Len(stdout[1].rows) = 3

\* C10: an invocation with resource logs or status and an empty name issues
\* no request: none goes to {base}/deployment//logs or {base}/deployment//status.
C10_LogsStatusNeedName ==
  /\ (IsMain /\ call.args.resource \in {"status", "logs"} /\ call.args.name = "")
       => requests = <<>>
  /\ \A i \in 1..Len(requests) :
       requests[i].url \notin
         {"https://api.portal.tsi.ebi.ac.uk/deployment//logs",
          "https://api.portal.tsi.ebi.ac.uk/deployment//status"}

====
